---- MODULE Spec2Model ----
(***************************************************************************)
(* Heat Pump Contribution API (app.py): the in-memory dataset df, the      *)
(* time columns derived at load, and the five query endpoints.             *)
(*                                                                         *)
(* Strings are sequences of code points (Python compares str by code       *)
(* point).  heatpump_pct is an exact decimal in thousandths of a percent;  *)
(* a mean is the exact rational num/den (sum over count).  A timestamp of  *)
(* the source file is a civil time plus a UTC offset in minutes.           *)
(***************************************************************************)
EXTENDS Integers, Sequences, FiniteSets, TLC

VARIABLES raw, df, resp

vars == <<raw, df, resp>>

\* Largest number of rows of the dataset file.
MaxRows == 3

(***************************************************************************)
(* Strings                                                                 *)
(***************************************************************************)

\* str.lower() of one code point (ASCII letters)
Lower(c) == IF c >= 65 /\ c <= 90 THEN c + 32 ELSE c

\* str.upper() of one code point (ASCII letters)
Upper(c) == IF c >= 97 /\ c <= 122 THEN c - 32 ELSE c

UpperStr(s) == [i \in 1..Len(s) |-> Upper(s[i])]

IsSpace(c) == c = 32 \/ (c >= 9 /\ c <= 13)

RECURSIVE LStrip(_)
LStrip(s) == IF s # <<>> /\ IsSpace(Head(s)) THEN LStrip(Tail(s)) ELSE s

RECURSIVE RStrip(_)
RStrip(s) ==
  IF s # <<>> /\ IsSpace(s[Len(s)]) THEN RStrip(SubSeq(s, 1, Len(s) - 1)) ELSE s

\* Series.str.strip()
Strip(s) == RStrip(LStrip(s))

\* Python's < on str (by code point) and on date / Period / tuples of them
\* (by field): lexicographic, a proper prefix first
RECURSIVE LexLess(_, _)
LexLess(a, b) ==
  IF b = <<>> THEN FALSE
  ELSE IF a = <<>> THEN TRUE
  ELSE IF Head(a) # Head(b) THEN Head(a) < Head(b)
  ELSE LexLess(Tail(a), Tail(b))

\* `pat in x` of Python: pat occurs in x as a contiguous substring
IsSubstring(pat, x) ==
  \E i \in 0..(Len(x) - Len(pat)) : SubSeq(x, i + 1, i + Len(pat)) = pat

(***************************************************************************)
(* Timestamps: pd.to_datetime(utc=True) and the .dt accessors              *)
(***************************************************************************)

\* days since 1970-01-01 of a proleptic Gregorian civil date
DaysFromCivil(y, m, d) ==
  LET yy  == IF m <= 2 THEN y - 1 ELSE y
      era == yy \div 400
      yoe == yy - era * 400
      mp  == IF m > 2 THEN m - 3 ELSE m + 9
      doy == (153 * mp + 2) \div 5 + d - 1
      doe == yoe * 365 + yoe \div 4 - yoe \div 100 + doy
  IN  era * 146097 + doe - 719468

\* civil date <<y, m, d>> of a day count since 1970-01-01
CivilFromDays(z) ==
  LET zz  == z + 719468
      era == zz \div 146097
      doe == zz - era * 146097
      yoe == (doe - doe \div 1460 + doe \div 36524 - doe \div 146096) \div 365
      doy == doe - (365 * yoe + yoe \div 4 - yoe \div 100)
      mp  == (5 * doy + 2) \div 153
      d   == doy - (153 * mp + 2) \div 5 + 1
      m   == IF mp < 10 THEN mp + 3 ELSE mp - 9
      y   == yoe + era * 400
  IN  <<IF m <= 2 THEN y + 1 ELSE y, m, d>>

\* pd.to_datetime(ts, utc=True): the instant, in minutes since the epoch UTC
to_datetime_utc(ts) ==
  DaysFromCivil(ts.y, ts.m, ts.d) * 1440 + ts.H * 60 + ts.M - ts.off

\* .dt.hour of a UTC timestamp
dt_hour(t) == (t % 1440) \div 60

\* .dt.date of a UTC timestamp
dt_date(t) == CivilFromDays(t \div 1440)

\* .dt.time of a UTC timestamp
dt_time(t) == <<(t % 1440) \div 60, t % 60>>

\* .dt.tz_localize(None): the UTC wall clock time without zone information
tz_localize_none(t) == t

\* .dt.to_period("M") of a naive timestamp: <<year, month>>
to_period_M(t) == SubSeq(CivilFromDays(t \div 1440), 1, 2)

(***************************************************************************)
(* Loading (module level, lines 41-61)                                     *)
(***************************************************************************)

\* variant: the month taken from the file's local civil date
MonthColumnLocal(row, t) == <<row.timestamp.y, row.timestamp.m>>

\* the month column of one row, t the row's UTC timestamp
MonthColumn(row, t) == to_period_M(tz_localize_none(t))

\* one row of df after the recalculation of the time columns and the cleaning
LoadRow(row) ==
  LET t == to_datetime_utc(row.timestamp)
  IN  [timestamp        |-> t,
       hour             |-> dt_hour(t),
       date             |-> dt_date(t),
       month            |-> MonthColumn(row, t),
       time             |-> dt_time(t),
       Location         |-> Strip(row.Location),
       Town             |-> Strip(row.Town),
       total_energy_kWh |-> row.total_energy_kWh,
       heatpump_pct     |-> row.heatpump_pct]

Load(file) == [i \in 1..Len(file) |-> LoadRow(file[i])]

\* Rows a dataset file is made of.  Code points: A=65 D=68 O=79 a=97
\* d=100 o=111 1=49 .=46 space=32.
RawRows ==
  { \* 2023-01-31T23:30+01:00, "A", "Od"
    [timestamp |-> [y |-> 2023, m |-> 1, d |-> 31, H |-> 23, M |-> 30, off |-> 60],
     Location |-> <<65>>, Town |-> <<79, 100>>,
     total_energy_kWh |-> 4, heatpump_pct |-> 10000],
    \* 2023-02-01T00:10Z, "A", "OD"
    [timestamp |-> [y |-> 2023, m |-> 2, d |-> 1, H |-> 0, M |-> 10, off |-> 0],
     Location |-> <<65>>, Town |-> <<79, 68>>,
     total_energy_kWh |-> 5, heatpump_pct |-> 20000],
    \* 2023-02-01T00:30+01:00, " A", "o1"
    [timestamp |-> [y |-> 2023, m |-> 2, d |-> 1, H |-> 0, M |-> 30, off |-> 60],
     Location |-> <<32, 65>>, Town |-> <<111, 49>>,
     total_energy_kWh |-> 2, heatpump_pct |-> 30000],
    \* 2022-12-31T23:30-01:00, "a", "d."
    [timestamp |-> [y |-> 2022, m |-> 12, d |-> 31, H |-> 23, M |-> 30, off |-> -60],
     Location |-> <<97>>, Town |-> <<100, 46>>,
     total_energy_kWh |-> 3, heatpump_pct |-> -5000],
    \* 2023-01-31T22:45Z, "A", "Od "
    [timestamp |-> [y |-> 2023, m |-> 1, d |-> 31, H |-> 22, M |-> 45, off |-> 0],
     Location |-> <<65>>, Town |-> <<79, 100, 32>>,
     total_energy_kWh |-> 1, heatpump_pct |-> 150005] }

RawFiles == UNION { [1..n -> RawRows] : n \in 1..MaxRows }

(***************************************************************************)
(* Series.str.contains(pat, case=False, na=False): regex=True is the       *)
(* default, so pat is compiled with re.IGNORECASE and searched.            *)
(* Patterns are over the letters o O d D, digits, space, '.', '*', '('     *)
(* and '\' (no ')' and no other letter after a '\').                      *)
(***************************************************************************)

ReError == [ok |-> FALSE, atoms |-> <<>>]

IsAlnum(c) ==
  (c >= 48 /\ c <= 57) \/ (c >= 65 /\ c <= 90) \/ (c >= 97 /\ c <= 122)

\* the atom that starts at p[i] and the index after it; kind "error" for a
\* pattern re.compile rejects
ReAtom(p, i) ==
  LET c == p[i]
  IN  IF c = 42 THEN [kind |-> "error", ch |-> c, next |-> i]      \* '*'
      ELSE IF c = 40 /\ ~(\E j \in (i + 1)..Len(p) : p[j] = 41)    \* '('
        THEN [kind |-> "error", ch |-> c, next |-> i]
      ELSE IF c = 46 THEN [kind |-> "any", ch |-> c, next |-> i + 1]
      ELSE IF c = 92 THEN                                           \* '\'
        IF i = Len(p) THEN [kind |-> "error", ch |-> c, next |-> i]
        ELSE IF p[i + 1] = 100 THEN [kind |-> "digit", ch |-> c, next |-> i + 2]
        ELSE IF p[i + 1] = 68 THEN [kind |-> "nondigit", ch |-> c, next |-> i + 2]
        ELSE IF ~IsAlnum(p[i + 1])
          THEN [kind |-> "lit", ch |-> p[i + 1], next |-> i + 2]
        ELSE [kind |-> "error", ch |-> c, next |-> i]
      ELSE [kind |-> "lit", ch |-> c, next |-> i + 1]

\* re.compile(p): the sequence of atoms, each with its '*' flag
RECURSIVE ReParse(_, _)
ReParse(p, i) ==
  IF i > Len(p) THEN [ok |-> TRUE, atoms |-> <<>>]
  ELSE LET a == ReAtom(p, i)
       IN  IF a.kind = "error" THEN ReError
           ELSE LET star == a.next <= Len(p) /\ p[a.next] = 42
                    rest == ReParse(p, IF star THEN a.next + 1 ELSE a.next)
                IN  IF ~rest.ok THEN ReError
                    ELSE [ok |-> TRUE,
                          atoms |-> <<[kind |-> a.kind, ch |-> a.ch,
                                       star |-> star]>> \o rest.atoms]

re_compile(p) == ReParse(p, 1)

\* one atom against one character, under re.IGNORECASE
AtomMatches(a, c) ==
  CASE a.kind = "any"      -> c # 10
    [] a.kind = "digit"    -> c >= 48 /\ c <= 57
    [] a.kind = "nondigit" -> ~(c >= 48 /\ c <= 57)
    [] a.kind = "lit"      -> Lower(a.ch) = Lower(c)

\* atoms[k..] match x from position i on
RECURSIVE MatchHere(_, _, _, _)
MatchHere(atoms, k, x, i) ==
  IF k > Len(atoms) THEN TRUE
  ELSE IF atoms[k].star
    THEN \E j \in i..(Len(x) + 1) :
           /\ \A n \in i..(j - 1) : AtomMatches(atoms[k], x[n])
           /\ MatchHere(atoms, k + 1, x, j)
  ELSE /\ i <= Len(x)
       /\ AtomMatches(atoms[k], x[i])
       /\ MatchHere(atoms, k + 1, x, i + 1)

\* compiled.search(x) is not None
re_search(atoms, x) == \E i \in 1..(Len(x) + 1) : MatchHere(atoms, 1, x, i)

(***************************************************************************)
(* DataFrame helpers                                                       *)
(***************************************************************************)

\* df[name]
Column(d, name) == [i \in 1..Len(d) |-> d[i][name]]

\* the subsequence of s at the indices that satisfy keep, in order
RECURSIVE SelectIdx(_, _, _)
SelectIdx(s, keep, n) ==
  IF n = 0 THEN <<>>
  ELSE IF n \in keep THEN Append(SelectIdx(s, keep, n - 1), s[n])
  ELSE SelectIdx(s, keep, n - 1)

\* df[mask]
Mask(d, keep) == SelectIdx(d, keep, Len(d))

\* variant: the duplicates are kept
keep_duplicates(s) == s

\* the first occurrences only, in order of appearance
RECURSIVE drop_duplicates(_)
drop_duplicates(s) ==
  IF s = <<>> THEN <<>>
  ELSE LET init == drop_duplicates(SubSeq(s, 1, Len(s) - 1))
           x    == s[Len(s)]
       IN  IF \E i \in 1..Len(init) : init[i] = x THEN init
           ELSE Append(init, x)

\* insertion of index x into idx, which is sorted by keys, after the indices
\* whose key is not greater
InsertSorted(idx, x, keys) ==
  LET after == {i \in 1..Len(idx) : LexLess(keys[x], keys[idx[i]])}
      pos   == IF after = {} THEN Len(idx) + 1
               ELSE CHOOSE i \in after : \A j \in after : i <= j
  IN  SubSeq(idx, 1, pos - 1) \o <<x>> \o SubSeq(idx, pos, Len(idx))

\* argsort of keys[1..n], ascending (insertion sort, which numpy's sorts use
\* on short arrays)
RECURSIVE ArgSort(_, _)
ArgSort(keys, n) ==
  IF n = 0 THEN <<>> ELSE InsertSorted(ArgSort(keys, n - 1), n, keys)

\* s reordered by the ascending order of keys
SortBy(s, keys) ==
  LET idx == ArgSort(keys, Len(keys)) IN [i \in 1..Len(idx) |-> s[idx[i]]]

RECURSIVE SumSeq(_)
SumSeq(s) == IF s = <<>> THEN 0 ELSE Head(s) + SumSeq(Tail(s))

\* variant: the sum is not divided by the count
SumOnly(s) == [num |-> SumSeq(s), den |-> 1]

\* Series.mean() of a non-empty series, as the exact rational num/den
Mean(s) == [num |-> SumSeq(s), den |-> Len(s)]

\* variant: the first value instead of the greatest
FirstValue(s) == s[1]

\* Series.max()
Max(s) == CHOOSE v \in {s[i] : i \in 1..Len(s)} : \A i \in 1..Len(s) : s[i] <= v

\* Series.min()
Min(s) == CHOOSE v \in {s[i] : i \in 1..Len(s)} : \A i \in 1..Len(s) : v <= s[i]

(***************************************************************************)
(* Requests and responses                                                  *)
(***************************************************************************)

\* Query(None): the parameter was not given
NoTown == [given |-> FALSE, value |-> <<>>]

GivenTown(s) == [given |-> TRUE, value |-> s]

\* the value a handler returns (or the error it ends in); steps lists the
\* DataFrame operations the handler has run
NoResponse ==
  [op |-> "none", location |-> <<>>, resolution |-> "", Town |-> NoTown,
   status |-> 0, detail |-> "", steps |-> {},
   locations |-> <<>>, series |-> <<>>, metrics |-> <<>>, plot |-> <<>>,
   rows |-> <<>>]

\* raise HTTPException(status_code=404, detail="Location not found")
LocationNotFound(r) ==
  [r EXCEPT !.status = 404, !.detail = "Location not found",
            !.steps = {"filter"}]

\* df[df['Location'] == location]
filter_location(d, location) ==
  Mask(d, {i \in 1..Len(d) : d[i].Location = location})

(***************************************************************************)
(* GET /locations                                                          *)
(***************************************************************************)

\* filtered_df of list_locations; ok is FALSE when re.compile raises
town_filter(d, Town) ==
  IF Town.given /\ Town.value # <<>>
    THEN LET re == re_compile(Town.value)
         IN  IF ~re.ok THEN [ok |-> FALSE, rows |-> <<>>]
             ELSE [ok |-> TRUE,
                   rows |-> Mask(d, {i \in 1..Len(d) :
                                       re_search(re.atoms, d[i].Town)})]
  ELSE [ok |-> TRUE, rows |-> d]

\* filtered_df[['Location', 'Town']].drop_duplicates().sort_values('Location')
location_pairs(rows) ==
  LET locs == drop_duplicates([i \in 1..Len(rows) |->
                                 [Location |-> rows[i].Location,
                                  Town |-> rows[i].Town]])
  IN  SortBy(locs, Column(locs, "Location"))

locations_result(d, Town) ==
  LET r == [NoResponse EXCEPT !.op = "locations", !.Town = Town]
      f == town_filter(d, Town)
  IN  IF ~f.ok
        THEN [r EXCEPT !.status = 500, !.detail = "Internal Server Error",
                       !.steps = {"contains"}]
      ELSE [r EXCEPT !.status = 200,
                     !.steps = {"contains", "drop_duplicates", "sort_values"},
                     !.locations = location_pairs(f.rows)]

(***************************************************************************)
(* GET /heatpump/share                                                     *)
(***************************************************************************)

\* variant: any resolution string is accepted
AnyResolution(resolution) == TRUE

\* resolution: Literal["hourly", "daily", "monthly"]
ValidResolution(resolution) == resolution \in {"hourly", "daily", "monthly"}

\* the group key of one row under the if / elif / else of the handler
GroupKey(row, resolution) ==
  IF resolution = "hourly" THEN Append(row.date, row.hour)
  ELSE IF resolution = "daily" THEN row.date
  ELSE row.month

\* variant: groupby(..., sort=False), the keys stay in order of appearance
UnsortedKeys(keys) == keys

\* groupby sorts the group keys
SortedKeys(keys) == SortBy(keys, keys)

\* variant: a row belongs to every group of its month
GroupMembersOfMonth(keys, k) ==
  {i \in 1..Len(keys) : SubSeq(keys[i], 1, 2) = SubSeq(k, 1, 2)}

\* the rows of one group
GroupMembers(keys, k) == {i \in 1..Len(keys) : keys[i] = k}

\* location_df.groupby(by)['heatpump_pct'].mean().reset_index()
groupby_mean(rows, resolution) ==
  LET keys   == [i \in 1..Len(rows) |-> GroupKey(rows[i], resolution)]
      groups == SortedKeys(drop_duplicates(keys))
  IN  [g \in 1..Len(groups) |->
         LET members == GroupMembers(keys, groups[g])
         IN  [key          |-> groups[g],
              heatpump_pct |-> Mean(Column(Mask(rows, members), "heatpump_pct")),
              size         |-> Cardinality(members)]]

\* variant: no check for an empty location_df
share_result_unchecked(d, location, resolution) ==
  LET r == [NoResponse EXCEPT !.op = "share", !.location = location,
                              !.resolution = resolution]
  IN  [r EXCEPT !.status = 200, !.steps = {"filter", "groupby"},
                !.series = groupby_mean(filter_location(d, location), resolution)]

share_result(d, location, resolution) ==
  LET r == [NoResponse EXCEPT !.op = "share", !.location = location,
                              !.resolution = resolution]
      location_df == filter_location(d, location)
  IN  IF ~ValidResolution(resolution)
        THEN [r EXCEPT !.status = 422, !.detail = "literal_error"]
      ELSE IF location_df = <<>> THEN LocationNotFound(r)
      ELSE [r EXCEPT !.status = 200, !.steps = {"filter", "groupby"},
                     !.series = groupby_mean(location_df, resolution)]

(***************************************************************************)
(* GET /heatpump/summary, /heatpump/plot, /heatpump/report                 *)
(***************************************************************************)

\* round(x, 2) of the rational q (in thousandths), in hundredths; a tie goes
\* to the even neighbour
Round2(q) ==
  LET unit == 10 * q.den
      f    == q.num \div unit
      rem  == q.num - f * unit
  IN  IF 2 * rem < unit THEN f
      ELSE IF 2 * rem > unit THEN f + 1
      ELSE IF f % 2 = 0 THEN f ELSE f + 1

summary_result(d, location) ==
  LET r == [NoResponse EXCEPT !.op = "summary", !.location = location]
      location_df == filter_location(d, location)
      pct == Column(location_df, "heatpump_pct")
  IN  IF location_df = <<>> THEN LocationNotFound(r)
      ELSE [r EXCEPT !.status = 200, !.steps = {"filter", "mean", "max", "min"},
              !.metrics =
                <<[location             |-> location,
                   average_heatpump_pct |-> Round2(Mean(pct)),
                   max_heatpump_pct     |-> Round2([num |-> Max(pct), den |-> 1]),
                   min_heatpump_pct     |-> Round2([num |-> Min(pct), den |-> 1]),
                   data_points          |-> Len(location_df)]>>]

\* the two curves of the plot; the heat pump curve is
\* total_energy_kWh * heatpump_pct / 100
generate_comparison_plot(data) ==
  [i \in 1..Len(data) |->
     [timestamp |-> data[i].timestamp,
      total     |-> data[i].total_energy_kWh,
      heatpump  |-> [num |-> data[i].total_energy_kWh * data[i].heatpump_pct,
                     den |-> 100]]]

plot_result(d, location) ==
  LET r == [NoResponse EXCEPT !.op = "plot", !.location = location]
      location_df == filter_location(d, location)
  IN  IF location_df = <<>> THEN LocationNotFound(r)
      ELSE [r EXCEPT !.status = 200, !.steps = {"filter", "plot"},
                     !.plot = generate_comparison_plot(location_df)]

report_result(d, location) ==
  LET r == [NoResponse EXCEPT !.op = "report", !.location = location]
      location_df == filter_location(d, location)
  IN  IF location_df = <<>> THEN LocationNotFound(r)
      ELSE [r EXCEPT !.status = 200, !.steps = {"filter", "to_csv"},
                     !.rows = location_df]

(***************************************************************************)
(* The state machine                                                       *)
(***************************************************************************)

\* Town values of the requests: absent, "", "od", "OD", ".", "*", "\d",
\* "\D", "("
TownParams ==
  {NoTown} \cup
  {GivenTown(s) : s \in {<<>>, <<111, 100>>, <<79, 68>>, <<46>>, <<42>>,
                         <<92, 100>>, <<92, 68>>, <<40>>}}

\* location values of the requests: "A", "a", " A", "C"
QueryLocations == {<<65>>, <<97>>, <<32, 65>>, <<67>>}

\* resolution values of the requests
QueryResolutions == {"hourly", "daily", "monthly", "weekly"}

Init ==
  /\ raw \in RawFiles
  /\ df = Load(raw)
  /\ resp = NoResponse

\* variant: the filter is applied to df itself
list_locations_inplace(Town) ==
  /\ resp' = locations_result(df, Town)
  /\ df' = town_filter(df, Town).rows
  /\ UNCHANGED raw

list_locations(Town) ==
  /\ resp' = locations_result(df, Town)
  /\ UNCHANGED <<raw, df>>

get_heatpump_share(location, resolution) ==
  /\ resp' = share_result(df, location, resolution)
  /\ UNCHANGED <<raw, df>>

get_summary_metrics(location) ==
  /\ resp' = summary_result(df, location)
  /\ UNCHANGED <<raw, df>>

get_heatpump_plot(location) ==
  /\ resp' = plot_result(df, location)
  /\ UNCHANGED <<raw, df>>

download_report(location) ==
  /\ resp' = report_result(df, location)
  /\ UNCHANGED <<raw, df>>

Next ==
  \/ \E Town \in TownParams : list_locations(Town)
  \/ \E location \in QueryLocations, resolution \in QueryResolutions :
       get_heatpump_share(location, resolution)
  \/ \E location \in QueryLocations : get_summary_metrics(location)
  \/ \E location \in QueryLocations : get_heatpump_plot(location)
  \/ \E location \in QueryLocations : download_report(location)

Spec == Init /\ [][Next]_vars

(***************************************************************************)
(* Properties                                                              *)
(***************************************************************************)

\* the rows of df at a location
RowsAt(location) == {i \in 1..Len(df) : df[i].Location = location}

LocationOps == {"share", "summary", "plot", "report"}

NoResult(r) ==
  r.series = <<>> /\ r.metrics = <<>> /\ r.plot = <<>> /\ r.rows = <<>>

\* C1: a query that takes a location (for get_heatpump_share: with a
\* resolution the handler is entered with) and names a location that no row
\* of df has exactly ends in 404 "Location not found" after the filter alone,
\* with no aggregation, summary, plot or export and no result.
C1_LocationNotFound ==
  ( /\ resp.op \in LocationOps
    /\ resp.op = "share" => resp.resolution \in {"hourly", "daily", "monthly"}
    /\ RowsAt(resp.location) = {} )
  => /\ resp.status = 404
     /\ resp.detail = "Location not found"
     /\ resp.steps = {"filter"}
     /\ NoResult(resp)

\* "a" is asked for, the dataset has "A" only: not found
C1_Witness ==
  /\ resp.op = "summary"
  /\ resp.location = <<97>>
  /\ resp.status = 404
  /\ \E i \in 1..Len(df) : df[i].Location = <<65>>
  /\ \A i \in 1..Len(df) : df[i].Location # <<97>>

\* the position of a bucket key on the time line: hours, days or months
KeyOrdinal(key) ==
  IF Len(key) = 4 THEN DaysFromCivil(key[1], key[2], key[3]) * 24 + key[4]
  ELSE IF Len(key) = 3 THEN DaysFromCivil(key[1], key[2], key[3])
  ELSE key[1] * 12 + key[2]

\* C2: the buckets returned by get_heatpump_share are strictly ascending in
\* chronological order (so no bucket key occurs twice), whatever the order
\* of the rows of the dataset.
C2_StrictlyAscending ==
  (resp.op = "share" /\ resp.status = 200)
  => /\ resp.series # <<>>
     /\ \A i \in 1..(Len(resp.series) - 1) :
          KeyOrdinal(resp.series[i].key) < KeyOrdinal(resp.series[i + 1].key)

\* the rows of the location are in the dataset in descending time order
C2_Witness ==
  /\ resp.op = "share" /\ resp.status = 200 /\ resp.resolution = "hourly"
  /\ Len(resp.series) = 3
  /\ \A i \in 1..(Len(df) - 1) : df[i].timestamp > df[i + 1].timestamp

\* the bucket key of a row of df, from its date, hour and month columns
BucketOf(row, resolution) ==
  CASE resolution = "hourly"  -> <<row.date[1], row.date[2], row.date[3], row.hour>>
    [] resolution = "daily"   -> <<row.date[1], row.date[2], row.date[3]>>
    [] resolution = "monthly" -> <<row.month[1], row.month[2]>>

RECURSIVE SumSizes(_)
SumSizes(series) ==
  IF series = <<>> THEN 0 ELSE Head(series).size + SumSizes(Tail(series))

\* C3: the grouping of get_heatpump_share puts every row of the location in
\* exactly one bucket, and the member counts of the buckets sum to the
\* number of rows of the location.
C3_Partition ==
  (resp.op = "share" /\ resp.status = 200)
  => /\ SumSizes(resp.series) = Cardinality(RowsAt(resp.location))
     /\ \A i \in RowsAt(resp.location) :
          Cardinality({g \in 1..Len(resp.series) :
             resp.series[g].key = BucketOf(df[i], resp.resolution)}) = 1
     /\ \A g \in 1..Len(resp.series) :
          resp.series[g].size =
            Cardinality({i \in RowsAt(resp.location) :
               BucketOf(df[i], resp.resolution) = resp.series[g].key})

\* three rows in two hourly buckets
C3_Witness ==
  /\ resp.op = "share" /\ resp.status = 200 /\ resp.resolution = "hourly"
  /\ Cardinality(RowsAt(resp.location)) = 3
  /\ Len(resp.series) = 2

RECURSIVE TotalPct(_)
TotalPct(S) ==
  IF S = {} THEN 0
  ELSE LET i == CHOOSE x \in S : TRUE
       IN  df[i].heatpump_pct + TotalPct(S \ {i})

\* C4: the bucket keys returned by get_heatpump_share are exactly the keys
\* that some row of the location has, and the value of a bucket is the
\* arithmetic mean of heatpump_pct over the rows of the location with that
\* key; a bucket of one row has that row's value.
C4_ExactBucketsAndMean ==
  (resp.op = "share" /\ resp.status = 200)
  => /\ {resp.series[g].key : g \in 1..Len(resp.series)} =
          {BucketOf(df[i], resp.resolution) : i \in RowsAt(resp.location)}
     /\ \A g \in 1..Len(resp.series) :
          LET members == {i \in RowsAt(resp.location) :
                            BucketOf(df[i], resp.resolution) = resp.series[g].key}
              mean    == resp.series[g].heatpump_pct
          IN  /\ mean.den > 0
              /\ mean.num * Cardinality(members) = TotalPct(members) * mean.den
              /\ Cardinality(members) = 1 =>
                   \A i \in members : mean.num = df[i].heatpump_pct * mean.den

\* a bucket of two different values next to a bucket of one row, with a
\* month in between that has no bucket
C4_Witness ==
  /\ resp.op = "share" /\ resp.status = 200 /\ resp.resolution = "daily"
  /\ Len(resp.series) = 2
  /\ resp.series[1].size = 2 /\ resp.series[2].size = 1
  /\ \E i, j \in RowsAt(resp.location) :
       /\ df[i].date = df[j].date
       /\ df[i].heatpump_pct # df[j].heatpump_pct

\* C5: the values returned by get_summary_metrics satisfy
\* min <= average <= max, and data_points is the number of rows of the
\* location, also for heatpump_pct values outside [0, 100].
C5_SummaryOrdered ==
  (resp.op = "summary" /\ resp.status = 200)
  => /\ Len(resp.metrics) = 1
     /\ resp.metrics[1].min_heatpump_pct <= resp.metrics[1].average_heatpump_pct
     /\ resp.metrics[1].average_heatpump_pct <= resp.metrics[1].max_heatpump_pct
     /\ resp.metrics[1].data_points = Cardinality(RowsAt(resp.location))

\* a location with a value above 100 percent, the greatest value last
C5_Witness ==
  /\ resp.op = "summary" /\ resp.status = 200
  /\ resp.metrics[1].data_points = 2
  /\ resp.metrics[1].max_heatpump_pct > 10000
  /\ resp.metrics[1].min_heatpump_pct < resp.metrics[1].average_heatpump_pct
  /\ resp.metrics[1].average_heatpump_pct < resp.metrics[1].max_heatpump_pct
  /\ df[Len(df)].heatpump_pct > 100000

PairOf(row) == [Location |-> row.Location, Town |-> row.Town]

\* C6: list_locations keeps a row if and only if its Town contains the
\* filter text as a literal substring, compared without regard to case; an
\* absent or empty filter keeps every row.
C6_LiteralSubstring ==
  resp.op = "locations"
  => /\ resp.status = 200
     /\ {resp.locations[k] : k \in 1..Len(resp.locations)} =
          {PairOf(df[i]) : i \in
             {j \in 1..Len(df) :
                \/ ~resp.Town.given
                \/ resp.Town.value = <<>>
                \/ IsSubstring(UpperStr(resp.Town.value), UpperStr(df[j].Town))}}

C7_Result ==
  (resp.op = "locations" /\ resp.status = 200)
  => /\ \A i, j \in 1..Len(resp.locations) :
          i < j => /\ resp.locations[i] # resp.locations[j]
                   /\ ~LexLess(resp.locations[j].Location,
                               resp.locations[i].Location)
     /\ LET kept == town_filter(df, resp.Town).rows
        IN  {resp.locations[k] : k \in 1..Len(resp.locations)} =
              {PairOf(kept[i]) : i \in 1..Len(kept)}

C7_Repeated ==
  (resp.op = "locations" /\ resp'.op = "locations" /\ resp'.Town = resp.Town)
  => resp' = resp

\* C7: the result of list_locations has no (Location, Town) pair twice, is
\* sorted ascending by Location, has one entry for every pair of the kept
\* rows (two Towns of one Location are two entries), and a call repeated
\* with the same filter returns the same entries in the same order.
C7_Catalog == [](C7_Result) /\ [][C7_Repeated]_vars

\* one Location with two Towns, one of the pairs twice in the dataset
C7_Witness ==
  /\ resp.op = "locations" /\ resp.status = 200 /\ ~resp.Town.given
  /\ Len(df) = 3
  /\ Len(resp.locations) = 2
  /\ resp.locations[1].Location = resp.locations[2].Location
  /\ resp.locations[1].Town # resp.locations[2].Town

\* C8: a resolution outside {hourly, daily, monthly} is rejected before any
\* grouping: get_heatpump_share gives no series for it, not the monthly one
\* either.
C8_InvalidResolution ==
  (resp.op = "share" /\ resp.resolution \notin {"hourly", "daily", "monthly"})
  => /\ resp.status = 422
     /\ resp.steps = {}
     /\ NoResult(resp)

\* "weekly" for a location that has rows
C8_Witness ==
  /\ resp.op = "share" /\ resp.resolution = "weekly" /\ resp.status = 422
  /\ RowsAt(resp.location) # {}

\* the instant of a row of the file, from its civil fields and its offset
InstantOf(ts) ==
  DaysFromCivil(ts.y, ts.m, ts.d) * 1440 + ts.H * 60 + ts.M - ts.off

\* C9: the hour, date and month keys of every row come from the UTC instant
\* of its timestamp: the date and hour keys are the UTC calendar date and
\* hour that contain the instant, and the month key is the (year, month) of
\* the date key.  2023-01-31T23:30+01:00 is in January 2023 (22h UTC),
\* 2023-02-01T00:10Z in February 2023.
C9_UtcBuckets ==
  /\ Len(df) = Len(raw)
  /\ \A i \in 1..Len(df) :
       LET start == DaysFromCivil(df[i].date[1], df[i].date[2], df[i].date[3])
                      * 1440 + df[i].hour * 60
           ts == raw[i].timestamp
       IN  /\ df[i].date[2] \in 1..12 /\ df[i].date[3] \in 1..31
           /\ df[i].hour \in 0..23
           /\ start <= InstantOf(ts) /\ InstantOf(ts) < start + 60
           /\ df[i].month = <<df[i].date[1], df[i].date[2]>>
           /\ (ts = [y |-> 2023, m |-> 1, d |-> 31, H |-> 23, M |-> 30, off |-> 60])
                => (df[i].month = <<2023, 1>> /\ df[i].date = <<2023, 1, 31>>
                      /\ df[i].hour = 22)
           /\ (ts = [y |-> 2023, m |-> 2, d |-> 1, H |-> 0, M |-> 10, off |-> 0])
                => (df[i].month = <<2023, 2>> /\ df[i].date = <<2023, 2, 1>>
                      /\ df[i].hour = 0)

\* a row whose local month is not the month of its UTC instant, next to the
\* two rows of the example, and the monthly series over the three
C9_Witness ==
  /\ resp.op = "share" /\ resp.resolution = "monthly" /\ resp.status = 200
  /\ Len(resp.series) = 2
  /\ resp.series[1].key = <<2023, 1>> /\ resp.series[1].size = 2
  /\ resp.series[2].key = <<2023, 2>> /\ resp.series[2].size = 1
  /\ \E i \in 1..Len(df) : raw[i].timestamp.m # df[i].month[2]
  /\ \E i \in 1..Len(df) :
       raw[i].timestamp.off = 60 /\ df[i].month = <<2023, 1>> /\ df[i].hour = 22
  /\ \E i \in 1..Len(df) : df[i].month = <<2023, 2>>

\* the answer to the request that response r answers, on dataset d
Answer(d, r) ==
  CASE r.op = "locations" -> locations_result(d, r.Town)
    [] r.op = "share"     -> share_result(d, r.location, r.resolution)
    [] r.op = "summary"   -> summary_result(d, r.location)
    [] r.op = "plot"      -> plot_result(d, r.location)
    [] r.op = "report"    -> report_result(d, r.location)

C10_Step ==
  /\ df' = df
  /\ raw' = raw
  /\ resp' = Answer(Load(raw), resp')

\* C10: no query changes a row or a derived key of df, in any sequence of
\* queries, and every query returns what it returns on the dataset as
\* loaded, whatever queries ran before it.
C10_ReadOnly == [][C10_Step]_vars

\* a Town filter has kept a part of the rows, and df still has them all
C10_Witness ==
  /\ resp.op = "locations" /\ resp.Town.given /\ resp.status = 200
  /\ Len(town_filter(df, resp.Town).rows) < Len(df)
  /\ Len(df) = MaxRows
  /\ df = Load(raw)

====
